---------------------------- MODULE Spec2Model ----------------------------
(***************************************************************************)
(* FAOA treasurer tool (src/app.py): the row classifier, the batch         *)
(* pipeline, the reviewer merge, the summary and the two exports.          *)
(*                                                                         *)
(* Representation.                                                         *)
(*  - A description is [na, kws, upper]: na = the cell is missing (NaN);   *)
(*    kws = the keyword fragments its text is made of, separated by        *)
(*    blanks; upper = the text is written in upper case.  A keyword k is   *)
(*    a substring of the text iff it is a substring of one fragment.       *)
(*  - A raw amount is [kind, v]: kind "num" (a number, v in cents), "nan"  *)
(*    (an empty cell, NaN) or "text" (a string float() cannot parse).      *)
(*  - A text cell is a string; NA stands for a missing value (NaN/None),   *)
(*    which differs from the empty string "".                              *)
(*                                                                         *)
(* Scope.  The Date, Event Location and Event Purpose columns, the         *)
(* Month/Year period and the rendering of the exports as text are left     *)
(* out: the exports are kept as the rows and sections they write.  The     *)
(* reviewer edits the category, the labels and the NFI flag, not the       *)
(* description or the amount.  Unparseable amount text is an input of the  *)
(* classifier (SpecClassify); the files of the pipeline (Spec) hold        *)
(* numbers and empty cells.  prev keeps the final rows and the summary of   *)
(* the run before the current one, for the runs that follow another.       *)
(***************************************************************************)
EXTENDS Integers, Sequences, FiniteSets, TLC

VARIABLES pc, raw, cols, df, journal_mask, review_df, edits, summary, csv, report,
          c_row, c_out, prev

vars == <<pc, raw, cols, df, journal_mask, review_df, edits, summary, csv, report,
          c_row, c_out, prev>>

(* Bounds of the model *)
MaxKw == 2
MaxRows == 2
MaxEdits == 1

NA == "<NA>"

---------------------------------------------------------------------------
(* Category registry *)

CATEGORY_LABELS ==
    [code \in {"1", "2", "3", "4", "6", "7", "9", "14", "15", "16", "18", "19", "22", "23"} |->
        CASE code = "1"  -> "1 - Gifts, grants, contributions received"
          [] code = "2"  -> "2 - Membership fees received"
          [] code = "3"  -> "3 - Gross investment income"
          [] code = "4"  -> "4 - Net unrelated business income"
          [] code = "6"  -> "6 - Value of services/facilities furnished by government"
          [] code = "7"  -> "7 - Other revenue"
          [] code = "9"  -> "9 - Gross receipts from activities related to exempt purpose"
          [] code = "14" -> "14 - Fundraising expenses"
          [] code = "15" -> "15 - Contributions, gifts, grants paid out"
          [] code = "16" -> "16 - Disbursements to/for members"
          [] code = "18" -> "18 - Other salaries and wages"
          [] code = "19" -> "19 - Interest expense"
          [] code = "22" -> "22 - Professional fees"
          [] code = "23" -> "23 - Other expenses not classified above"]

REVENUE_CODES == {"1", "2", "3", "4", "6", "7", "9"}
EXPENSE_CODES == {"14", "15", "16", "18", "19", "22", "23"}

(* 500.0 dollars, in cents *)
LARGE_SPONSOR_THRESHOLD == 500 * 100

IGNORE == "IGNORE"

(* cat.startswith(code + " "): the labels are "<code> - <text>", so a label
   starts with "<code> " exactly when it is the registry's label of code;
   "IGNORE" starts with no code. *)
StartsWithCode(cat, code) ==
    /\ code \in DOMAIN CATEGORY_LABELS
    /\ cat = CATEGORY_LABELS[code]

(* cat.split(" ", 1)[0] *)
split_code(cat) ==
    IF \E code \in DOMAIN CATEGORY_LABELS : cat = CATEGORY_LABELS[code]
    THEN CHOOSE code \in DOMAIN CATEGORY_LABELS : cat = CATEGORY_LABELS[code]
    ELSE cat

---------------------------------------------------------------------------
(* Keyword matching *)

BalanceExceptions == {"deposit", "withdrawal", "paid from", "pos debit", "ach"}
SponsorKeywords == {"sponsorship", "sponsor", "corp sponsor", "donation", "donor"}
ProfessionalFeeKeywords ==
    {"cooley", "legal", "attorney", "law firm", "cpa", "accounting", "bookkeeping",
     "consulting fee", "upwork", "airtable.com", "airtable", "g suite", "gsuite",
     "google workspace", "google*gsuite", "wild apricot", "wildapricot",
     "squarespace", "authnet gateway", "affinipay", "affinipayllc"}
SaasKeywords == {"convertkit", "kit.com", "networksolutio", "network solutions", "apple.com"}
AwardKeywords == {"awards recognition", "maxter group"}
ChapterEventKeywords ==
    {"chapter event", "chapter dinner", "chapter lunch", "chapter meeting",
     "paypal *sam", "paypal sam"}
MerchantFeeKeywords == {"bkcrd fees", "merchant fee", "cardconnect", "processing fee"}

(* Every fragment a description of the model can be made of: the keywords of
   the code and one text that matches no keyword. *)
Fragments ==
    {"balance", "transfer", "savings", "stripe transfer", "interest", "random vendor xyz"}
    \cup BalanceExceptions \cup SponsorKeywords \cup ProfessionalFeeKeywords
    \cup SaasKeywords \cup AwardKeywords \cup ChapterEventKeywords \cup MerchantFeeKeywords

(* <<k, f>>: keyword k is a proper substring of fragment f *)
ProperSubstrings ==
    {<<"transfer", "stripe transfer">>,
     <<"sponsor", "sponsorship">>, <<"sponsor", "corp sponsor">>,
     <<"affinipay", "affinipayllc">>,
     <<"airtable", "airtable.com">>,
     <<"gsuite", "google*gsuite">>}

Substring(k, f) == k = f \/ <<k, f>> \in ProperSubstrings

(* str(x): a missing cell (NaN) prints as the text "nan", which holds no keyword *)
Str(d) == IF d.na THEN [kws |-> {}, upper |-> FALSE] ELSE [kws |-> d.kws, upper |-> d.upper]

(* text.lower() *)
Lower(text) == [text EXCEPT !.upper = FALSE]

(* k in text: case-sensitive substring test; the keywords are lower case *)
In(k, text) == ~text.upper /\ \E f \in text.kws : Substring(k, f)

AnyIn(ks, text) == \E k \in ks : In(k, text)

(* row.get(col, default) *)
Get(row, col, default) == IF col \in DOMAIN row THEN row[col] ELSE default

(* the text "" *)
EmptyText == [na |-> FALSE, kws |-> {}, upper |-> FALSE]

(* float(amount_raw), except Exception: 0.0 *)
ParseFloat(x) == IF x.kind = "text" THEN [kind |-> "num", v |-> 0] ELSE x

(* comparisons of a float: every comparison with NaN is false *)
Gt(a, n) == a.kind = "num" /\ a.v > n
Lt(a, n) == a.kind = "num" /\ a.v < n
Ge(a, n) == a.kind = "num" /\ a.v >= n
AbsLt(a, n) == a.kind = "num" /\ (IF a.v < 0 THEN -a.v ELSE a.v) < n

---------------------------------------------------------------------------
(* classify_row *)

Outcome(cat, nr, ps) == [cat |-> cat, nr |-> nr, ps |-> ps]

HardIgnore(desc) == In("balance", desc) /\ ~AnyIn(BalanceExceptions, desc)

InternalTransfer(desc) == In("transfer", desc) /\ In("savings", desc)

StripeSplitInclusive(amount) ==
    IF AbsLt(amount, 9 * 100 + 1)
    THEN Outcome(CATEGORY_LABELS["9"], FALSE, FALSE)
    ELSE Outcome(CATEGORY_LABELS["2"], FALSE, FALSE)

StripeSplit(amount) ==
    IF AbsLt(amount, 9 * 100)
    THEN Outcome(CATEGORY_LABELS["9"], FALSE, FALSE)
    ELSE Outcome(CATEGORY_LABELS["2"], FALSE, FALSE)

FallbackAboveThreshold(amount) ==
    IF Gt(amount, 0)
    THEN IF Gt(amount, LARGE_SPONSOR_THRESHOLD)
         THEN Outcome(CATEGORY_LABELS["1"], TRUE, TRUE)
         ELSE Outcome(CATEGORY_LABELS["7"], TRUE, FALSE)
    ELSE Outcome(CATEGORY_LABELS["23"], TRUE, FALSE)

Fallback(amount) ==
    IF Gt(amount, 0)
    THEN IF Ge(amount, LARGE_SPONSOR_THRESHOLD)
         THEN Outcome(CATEGORY_LABELS["1"], TRUE, TRUE)
         ELSE Outcome(CATEGORY_LABELS["7"], TRUE, FALSE)
    ELSE Outcome(CATEGORY_LABELS["23"], TRUE, FALSE)

ExpenseRulesInterestFirst(desc, amount) ==
    IF In("interest", desc) /\ Lt(amount, 0) THEN Outcome(CATEGORY_LABELS["19"], FALSE, FALSE)
    ELSE IF AnyIn(ProfessionalFeeKeywords, desc) THEN Outcome(CATEGORY_LABELS["22"], FALSE, FALSE)
    ELSE IF AnyIn(SaasKeywords, desc) THEN Outcome(CATEGORY_LABELS["23"], FALSE, FALSE)
    ELSE IF AnyIn(AwardKeywords, desc) THEN Outcome(CATEGORY_LABELS["15"], FALSE, FALSE)
    ELSE IF AnyIn(ChapterEventKeywords, desc) THEN Outcome(CATEGORY_LABELS["16"], TRUE, FALSE)
    ELSE IF AnyIn(MerchantFeeKeywords, desc) THEN Outcome(CATEGORY_LABELS["23"], FALSE, FALSE)
    ELSE Fallback(amount)

ExpenseRules(desc, amount) ==
    IF AnyIn(ProfessionalFeeKeywords, desc) THEN Outcome(CATEGORY_LABELS["22"], FALSE, FALSE)
    ELSE IF AnyIn(SaasKeywords, desc) THEN Outcome(CATEGORY_LABELS["23"], FALSE, FALSE)
    ELSE IF AnyIn(AwardKeywords, desc) THEN Outcome(CATEGORY_LABELS["15"], FALSE, FALSE)
    ELSE IF AnyIn(ChapterEventKeywords, desc) THEN Outcome(CATEGORY_LABELS["16"], TRUE, FALSE)
    ELSE IF AnyIn(MerchantFeeKeywords, desc) THEN Outcome(CATEGORY_LABELS["23"], FALSE, FALSE)
    ELSE IF In("interest", desc) /\ Lt(amount, 0) THEN Outcome(CATEGORY_LABELS["19"], FALSE, FALSE)
    ELSE Fallback(amount)

RevenueRules(desc, amount) ==
    IF In("affinipay", desc) /\ Gt(amount, 0) THEN Outcome(CATEGORY_LABELS["2"], FALSE, FALSE)
    ELSE IF In("stripe transfer", desc) /\ Gt(amount, 0) THEN StripeSplit(amount)
    ELSE IF AnyIn(SponsorKeywords, desc) THEN Outcome(CATEGORY_LABELS["1"], TRUE, TRUE)
    ELSE IF In("interest", desc) /\ Gt(amount, 0) THEN Outcome(CATEGORY_LABELS["3"], FALSE, FALSE)
    ELSE ExpenseRules(desc, amount)

classify_row(row) ==
    LET desc == Lower(Str(Get(row, "Description", EmptyText)))
        amount == ParseFloat(Get(row, "Amount", [kind |-> "num", v |-> 0]))
    IN  IF HardIgnore(desc) THEN Outcome(IGNORE, FALSE, FALSE)
        ELSE IF InternalTransfer(desc) THEN Outcome(IGNORE, FALSE, FALSE)
        ELSE RevenueRules(desc, amount)

---------------------------------------------------------------------------
(* Inputs of the classifier specification *)

RECURSIVE SubsetsUpTo(_, _)
SubsetsUpTo(S, k) ==
    IF k = 0 THEN {{}}
    ELSE LET P == SubsetsUpTo(S, k - 1) IN P \cup {p \cup {x} : p \in P, x \in S}

Text(kws, upper) == [na |-> FALSE, kws |-> kws, upper |-> upper]
MissingText == [na |-> TRUE, kws |-> {}, upper |-> FALSE]

Descriptions ==
    {MissingText} \cup {Text(k, u) : k \in SubsetsUpTo(Fragments, MaxKw), u \in BOOLEAN}

Num(v) == [kind |-> "num", v |-> v]

RawAmounts ==
    {[kind |-> "nan", v |-> 0], [kind |-> "text", v |-> 0]} \cup
    {Num(v) : v \in {-4250, -1, 0, 1, 500, 899, 900, 4500, 49999, 50000, 150000}}

---------------------------------------------------------------------------
(* Data frames: a sequence of rows; a row is a function from its column
   names to its cells, and "id" is its index label (the row's position in the
   uploaded file, which no step of the script changes). *)

Filter(frame, Keep(_)) == SelectSeq(frame, Keep)

Map(frame, F(_)) == [i \in 1..Len(frame) |-> F(frame[i])]

Ids(frame) == {frame[i].id : i \in 1..Len(frame)}

RowOf(frame, id) == frame[CHOOSE i \in 1..Len(frame) : frame[i].id = id]

(* Series.str.contains(k, case=False, na=False) *)
ContainsNoCase(k, d) == ~d.na /\ \E f \in d.kws : Substring(k, f)

(* Series.str.lower().str.contains(k, na=False) *)
LowerContains(k, d) == ~d.na /\ In(k, Lower(Str(d)))

(* pd.to_numeric(x, errors="coerce").fillna(0.0) *)
ToNumeric(a) == IF a.kind = "num" THEN a.v ELSE 0

required_cols == {"Description", "Amount"}

TextColumns == {"Member/Event Label", "Sponsor Name", "Itemization Label"}

HelperColumns == TextColumns \cup {"Needs Further Investigation"}

(* lines 259-261: dropna(subset=["Description"]), then drop every row whose
   description contains "balance" *)
PreFilterRows(frame) ==
    Filter(Filter(frame, LAMBDA r : ~r["Description"].na),
           LAMBDA r : ~ContainsNoCase("balance", r["Description"]))

(* lines 284-296: a helper column the file lacks is created, "" or False *)
EnsureColumns(frame, present) ==
    Map(frame, LAMBDA r :
        [c \in HelperColumns \ present |->
            IF c = "Needs Further Investigation" THEN FALSE ELSE ""] @@ r)

(* lines 305-307 *)
ApplyClassification(frame) ==
    Map(frame, LAMBDA r :
        LET o == classify_row(r)
        IN  [c \in {"IRS Category", "Needs Review", "Potential Sponsorship"} |->
                CASE c = "IRS Category" -> o.cat
                  [] c = "Needs Review" -> o.nr
                  [] OTHER -> o.ps] @@ r)

KeepIgnored(frame) == frame

(* line 310 *)
DropIgnored(frame) == Filter(frame, LAMBDA r : r["IRS Category"] # IGNORE)

(* lines 315-320 *)
JournalRow(r) ==
    /\ LowerContains("stripe transfer", r["Description"])
    /\ ToNumeric(r["Amount"]) > 0
    /\ (IF ToNumeric(r["Amount"]) < 0 THEN -ToNumeric(r["Amount"]) ELSE ToNumeric(r["Amount"])) < 9 * 100

JournalMask(frame) == {frame[i].id : i \in {j \in 1..Len(frame) : JournalRow(frame[j])}}

(* line 326: the label is set where the mask holds and the cell equals "" *)
AutoLabel(r, mask) ==
    IF r.id \in mask /\ r["Itemization Label"] = ""
    THEN [r EXCEPT !["Itemization Label"] = "Journal subscriptions"]
    ELSE r

(* lines 323-326 *)
ApplyJournalRule(frame, mask) ==
    Map(frame, LAMBDA r :
        AutoLabel(IF r.id \in mask THEN [r EXCEPT !["IRS Category"] = CATEGORY_LABELS["9"]] ELSE r,
                  mask))

ItemizedCodesAndFees == {"7", "9", "15", "16", "22", "23"}

ItemizedCodes == {"7", "9", "15", "16", "23"}

ForceReviewAfterReset(frame, mask) ==
    Map(frame, LAMBDA r :
        LET reset == IF r.id \in mask THEN FALSE ELSE r["Needs Review"]
        IN  [r EXCEPT !["Needs Review"] =
                reset \/ \E code \in ItemizedCodes : StartsWithCode(r["IRS Category"], code)])

(* lines 337-342: the OR, then the mask rows are reset to False *)
ForceReviewRows(frame, mask) ==
    Map(frame, LAMBDA r :
        LET forced == r["Needs Review"]
                        \/ \E code \in ItemizedCodes : StartsWithCode(r["IRS Category"], code)
        IN  [r EXCEPT !["Needs Review"] = IF r.id \in mask THEN FALSE ELSE forced])

(* line 347 *)
ReviewRows(frame) == Filter(frame, LAMBDA r : r["Needs Review"])

(* line 387 *)
cat_options == {CATEGORY_LABELS[code] : code \in DOMAIN CATEGORY_LABELS}

(* DataFrame.update(other): aligned on the index label; a cell of other
   overwrites the cell of the frame unless it is missing (NaN/None) *)
UpdateCell(old, new) == IF new = NA THEN old ELSE new

(* the cells of a description, amount or checkbox column are never None in
   the editor's result; those of a text or selectbox column may be *)
UpdateRow(r, other) ==
    IF r.id \in Ids(other)
    THEN LET o == RowOf(other, r.id)
         IN  [c \in DOMAIN r |->
                IF c \in {"IRS Category"} \cup TextColumns THEN UpdateCell(r[c], o[c])
                ELSE IF c \in DOMAIN o THEN o[c]
                ELSE r[c]]
    ELSE r

(* a merge by position: the j-th row handed to the reviewer takes the cells
   of the j-th row that came back *)
UpdateByPosition(frame, other) ==
    [i \in 1..Len(frame) |->
        IF frame[i].id \in Ids(other)
        THEN LET j == Cardinality({k \in 1..i : frame[k].id \in Ids(other)})
             IN  [c \in DOMAIN frame[i] |->
                    IF c = "id" THEN frame[i].id
                    ELSE IF c \in {"IRS Category"} \cup TextColumns
                    THEN UpdateCell(frame[i][c], other[j][c])
                    ELSE IF c \in DOMAIN other[j] THEN other[j][c]
                    ELSE frame[i][c]]
        ELSE frame[i]]

Update(frame, other) == Map(frame, LAMBDA r : UpdateRow(r, other))

(* the editor may hand the rows back in another order: as shown, or reversed *)
Orders(frame) == {frame, [i \in 1..Len(frame) |-> frame[Len(frame) + 1 - i]]}

(* line 456 *)
DropNeedsReview(frame) ==
    Map(frame, LAMBDA r : [c \in DOMAIN r \ {"Needs Review"} |-> r[c]])

---------------------------------------------------------------------------
(* Summary by IRS category *)

(* the category strings in the order sort_values (and groupby) puts them:
   lexicographic on the label, so "1 - " < "14 - " < ... < "2 - " < "22 - " *)
LabelOrder ==
    <<CATEGORY_LABELS["1"], CATEGORY_LABELS["14"], CATEGORY_LABELS["15"],
      CATEGORY_LABELS["16"], CATEGORY_LABELS["18"], CATEGORY_LABELS["19"],
      CATEGORY_LABELS["2"], CATEGORY_LABELS["22"], CATEGORY_LABELS["23"],
      CATEGORY_LABELS["3"], CATEGORY_LABELS["4"], CATEGORY_LABELS["6"],
      CATEGORY_LABELS["7"], CATEGORY_LABELS["9"], IGNORE>>

(* Series.sum(): NaN cells are skipped *)
RECURSIVE SumAmount(_)
SumAmount(frame) ==
    IF frame = <<>> THEN 0
    ELSE ToNumeric(Head(frame)["Amount"]) + SumAmount(Tail(frame))

(* groupby(col)[Amount].sum().reset_index().sort_values(col): one row per
   key present in the frame, in the order of keys; rows whose key is missing
   (NaN) belong to no group *)
GroupSum(frame, col, keys) ==
    LET present == SelectSeq(keys, LAMBDA k : \E i \in 1..Len(frame) : frame[i][col] = k)
    IN  [j \in 1..Len(present) |->
            [key |-> present[j],
             Amount |-> SumAmount(Filter(frame, LAMBDA r : r[col] = present[j]))]]

SummaryOfDeposits(frame) ==
    GroupSum(Filter(frame, LAMBDA r : ToNumeric(r["Amount"]) > 0), "IRS Category", LabelOrder)

(* lines 464-469 *)
Summary(frame) == GroupSum(frame, "IRS Category", LabelOrder)

---------------------------------------------------------------------------
(* Exports *)

(* build_monthly_activity_csv: one line per row of the frame, in its order,
   written without the index; the category is split into its code *)
build_monthly_activity_csv(frame) ==
    Map(frame, LAMBDA r :
        [c \in (DOMAIN r \ {"id", "IRS Category", "Needs Review"}) \cup {"IRS Category Code"} |->
            IF c = "IRS Category Code" THEN split_code(r["IRS Category"]) ELSE r[c]])

(* the strings of the model's text cells, in lexicographic order *)
TextOrder ==
    <<"", "Acme", "Boeing", "Hawaii Chapter Event", "Journal ads",
      "Journal subscriptions", "Misc", "UNLABELED">>

(* rows of one category: cat.startswith(code + " ") *)
CatRows(frame, code) == Filter(frame, LAMBDA r : StartsWithCode(r["IRS Category"], code))

(* (col != "").any(): a missing cell (NaN) is not equal to "" *)
AnyNonEmpty(frame, col) == \E i \in 1..Len(frame) : frame[i][col] # ""

(* .replace("", "UNLABELED").fillna("UNLABELED") *)
Unlabeled(frame) ==
    Map(frame, LAMBDA r :
        IF r["Itemization Label"] \in {"", NA}
        THEN [r EXCEPT !["Itemization Label"] = "UNLABELED"] ELSE r)

(* str(x or ""): a missing cell (NaN) is truthy and prints as "nan" *)
StrOr(x) == IF x = NA THEN "nan" ELSE x

(* a line per row of the category, with no grouping *)
RevenueSectionPerRow(frame, code) ==
    LET cat_df == CatRows(frame, code)
    IN  IF cat_df = <<>> THEN <<>>
        ELSE <<[code |-> code, kind |-> IF code = "1" THEN "sponsors" ELSE "labels",
                lines |-> Map(cat_df, LAMBDA r :
                            [key |-> r[IF code = "1" THEN "Sponsor Name" ELSE "Itemization Label"],
                             Amount |-> ToNumeric(r["Amount"])])]>>

(* lines 600-647: the itemized section of one revenue category, or <<>> *)
RevenueSection(frame, code) ==
    LET cat_df == CatRows(frame, code)
    IN  IF cat_df = <<>> THEN <<>>
        ELSE IF ~(AnyNonEmpty(cat_df, "Itemization Label") \/ AnyNonEmpty(cat_df, "Sponsor Name"))
        THEN <<>>
        ELSE IF code = "1"
        THEN <<[code |-> code, kind |-> "sponsors",
                lines |-> GroupSum(Filter(cat_df, LAMBDA r : r["Sponsor Name"] # ""),
                                   "Sponsor Name", TextOrder)]>>
        ELSE <<[code |-> code, kind |-> "labels",
                lines |-> GroupSum(Unlabeled(cat_df), "Itemization Label", TextOrder)]>>

(* lines 658-703: the itemized section of one expense category, or <<>> *)
ExpenseSection(frame, code) ==
    LET cat_df == CatRows(frame, code)
    IN  IF cat_df = <<>> THEN <<>>
        ELSE IF code = "16"
        THEN <<[code |-> code, kind |-> "events",
                lines |-> Map(cat_df, LAMBDA r :
                            [key |-> StrOr(r["Member/Event Label"]), Amount |-> r["Amount"]])]>>
        ELSE IF ~AnyNonEmpty(cat_df, "Itemization Label") THEN <<>>
        ELSE <<[code |-> code, kind |-> "labels",
                lines |-> GroupSum(Unlabeled(cat_df), "Itemization Label", TextOrder)]>>

RECURSIVE Concat(_)
Concat(seqs) == IF seqs = <<>> THEN <<>> ELSE Head(seqs) \o Concat(Tail(seqs))

(* the loop over summary_rows: the sections of the codes of one kind, in the
   order of the summary *)
Sections(frame, rows, codes, Section(_, _)) ==
    Concat(Map(rows, LAMBDA s :
        IF split_code(s.key) \in codes THEN Section(frame, split_code(s.key)) ELSE <<>>))

(* lines 570-589: the totals of the categories of one kind whose total is
   not zero (abs(amt) > 0.0001) *)
Totals(rows, codes) ==
    SelectSeq(rows, LAMBDA s : split_code(s.key) \in codes /\ s.Amount # 0)

(* build_text_report *)
build_text_report(frame, summ) ==
    [revenue |-> Totals(summ, REVENUE_CODES),
     expenses |-> Totals(summ, EXPENSE_CODES),
     itemized_revenue |-> Sections(frame, summ, REVENUE_CODES, RevenueSection),
     itemized_expenses |-> Sections(frame, summ, EXPENSE_CODES, ExpenseSection),
     nfi_count |-> Len(Filter(frame, LAMBDA r : r["Needs Further Investigation"] = TRUE)),
     nfi_total |-> SumAmount(Filter(frame, LAMBDA r : r["Needs Further Investigation"] = TRUE))]

---------------------------------------------------------------------------
(* The uploaded file *)

(* the rows of the files that have the two required columns and no more:
   description and amount *)
PlainRows ==
    {[d |-> Text({"balance"}, TRUE),                a |-> Num(100000),  l |-> NA],
     [d |-> Text({"deposit", "balance"}, FALSE),    a |-> Num(10000),   l |-> NA],
     [d |-> Text({"stripe transfer"}, TRUE),        a |-> Num(500),     l |-> NA],
     [d |-> Text({"corp sponsor"}, FALSE),          a |-> Num(150000),  l |-> NA],
     [d |-> Text({"random vendor xyz"}, FALSE),     a |-> Num(-4250),   l |-> NA],
     [d |-> Text({"chapter dinner"}, FALSE),        a |-> Num(-20000),  l |-> NA],
     [d |-> Text({"transfer", "savings"}, FALSE),   a |-> Num(-30000),  l |-> NA],
     [d |-> Text({"awards recognition"}, FALSE),    a |-> Num(-5000),   l |-> NA],
     [d |-> MissingText,                            a |-> Num(100),     l |-> NA],
     [d |-> Text({"affinipay"}, FALSE),             a |-> [kind |-> "nan", v |-> 0], l |-> NA]}

(* the rows of the files that also have an "Itemization Label" column (such
   as a re-uploaded export); l is the cell of that column, and an empty cell
   is read as NaN *)
LabelledRows ==
    {[d |-> Text({"affinipay"}, TRUE),              a |-> Num(4500),    l |-> NA],
     [d |-> Text({"stripe transfer"}, TRUE),        a |-> Num(500),     l |-> NA],
     [d |-> Text({"stripe transfer"}, FALSE),       a |-> Num(899),     l |-> "Misc"],
     [d |-> Text({"random vendor xyz"}, FALSE),     a |-> Num(-4250),   l |-> "Misc"],
     [d |-> Text({"chapter dinner"}, FALSE),        a |-> Num(-20000),  l |-> NA],
     [d |-> Text({"interest"}, FALSE),              a |-> Num(150),     l |-> NA]}

(* the rows of the files that also have a "Sponsor Name" column; s is the
   cell of that column, and an empty cell is read as NaN *)
SponsoredRows ==
    {[d |-> Text({"corp sponsor"}, FALSE),          a |-> Num(150000),  s |-> "Boeing"],
     [d |-> Text({"sponsorship"}, TRUE),            a |-> Num(50000),   s |-> "Boeing"],
     [d |-> Text({"sponsor"}, FALSE),               a |-> Num(20000),   s |-> "Acme"],
     [d |-> Text({"corp sponsor"}, FALSE),          a |-> Num(30000),   s |-> NA],
     [d |-> Text({"affinipay"}, FALSE),             a |-> Num(4500),    s |-> "Boeing"],
     [d |-> Text({"cooley"}, FALSE),                a |-> Num(-4250),   s |-> NA],
     [d |-> Text({"interest"}, FALSE),              a |-> Num(-150),    s |-> NA]}

(* the column sets of the files of the model *)
FileColumns ==
    {{"Description", "Amount"},
     {"Description", "Amount", "Itemization Label"},
     {"Description", "Amount", "Sponsor Name"},
     {"Amount"},
     {"Description"}}

FileRows(columns) ==
    IF "Itemization Label" \in columns THEN LabelledRows
    ELSE IF "Sponsor Name" \in columns THEN SponsoredRows
    ELSE PlainRows

FileRow(p, columns, id) ==
    [c \in columns \cup {"id"} |->
        CASE c = "id" -> id
          [] c = "Description" -> p.d
          [] c = "Amount" -> p.a
          [] c = "Sponsor Name" -> p.s
          [] OTHER -> p.l]

RECURSIVE SeqsUpTo(_, _)
SeqsUpTo(S, n) ==
    IF n = 0 THEN {<<>>}
    ELSE LET P == SeqsUpTo(S, n - 1) IN P \cup {Append(q, x) : q \in {r \in P : Len(r) = n - 1}, x \in S}

FilesWith(columns) ==
    {[columns |-> columns, rows |-> [i \in 1..Len(ps) |-> FileRow(ps[i], columns, i)]] :
        ps \in SeqsUpTo(FileRows(columns), MaxRows)}

Files == UNION {FilesWith(columns) : columns \in FileColumns}

NoRow == [Description |-> EmptyText, Amount |-> Num(0)]
NoOutcome == Outcome("", FALSE, FALSE)
NoReport == [revenue |-> <<>>, expenses |-> <<>>, itemized_revenue |-> <<>>,
             itemized_expenses |-> <<>>, nfi_count |-> 0, nfi_total |-> 0]

(* what is left of the run before this one: which file this run was given
   (kind), the final rows and the summary of that run, and the positions of
   the final rows whose label that run set itself *)
NoRun == [kind |-> "none", df |-> <<>>, summary |-> <<>>, auto |-> {}]

(* pd.read_csv of a cell that to_csv wrote: an empty text and a missing
   value are both written as nothing and both read as NaN *)
ReadCell(x) == IF x = "" THEN NA ELSE x

(* the frame read from an export: its lines in their order under a fresh
   index, the text cells read back *)
ReadExport(lines) ==
    [i \in 1..Len(lines) |->
        [c \in DOMAIN lines[i] \cup {"id"} |->
            IF c = "id" THEN i
            ELSE IF c \in TextColumns THEN ReadCell(lines[i][c])
            ELSE lines[i][c]]]

(* the columns of the export among those of the model *)
ExportColumns ==
    {"Description", "Amount", "IRS Category Code", "Potential Sponsorship"} \cup HelperColumns

(* the columns of the file that raw was read from *)
RawColumns == IF raw = <<>> THEN required_cols ELSE DOMAIN raw[1] \ {"id"}

---------------------------------------------------------------------------
(* The script, top to bottom *)

Init ==
    /\ \E f \in Files :
        /\ raw = f.rows
        /\ cols = f.columns
        /\ df = f.rows
    /\ pc = "uploaded"
    /\ journal_mask = {}
    /\ review_df = <<>>
    /\ edits = 0
    /\ summary = <<>>
    /\ csv = <<>>
    /\ report = NoReport
    /\ c_row = NoRow
    /\ c_out = NoOutcome
    /\ prev = NoRun

(* lines 258-261 *)
PreFilter ==
    /\ pc = "uploaded"
    /\ df' = IF "Description" \in cols THEN PreFilterRows(df) ELSE df
    /\ pc' = "filtered"
    /\ UNCHANGED <<raw, cols, journal_mask, review_df, edits, summary, csv, report, c_row, c_out, prev>>

(* lines 269-277: st.error and st.stop() *)
MissingColumns ==
    /\ pc = "filtered"
    /\ required_cols \ cols # {}
    /\ pc' = "stopped"
    /\ UNCHANGED <<raw, cols, df, journal_mask, review_df, edits, summary, csv, report, c_row, c_out, prev>>

(* lines 269-300 *)
Prepare ==
    /\ pc = "filtered"
    /\ required_cols \ cols = {}
    /\ df' = EnsureColumns(df, cols)
    /\ cols' = cols \cup HelperColumns
    /\ pc' = "prepared"
    /\ UNCHANGED <<raw, journal_mask, review_df, edits, summary, csv, report, c_row, c_out, prev>>

(* lines 305-310 *)
Classify ==
    /\ pc = "prepared"
    /\ df' = DropIgnored(ApplyClassification(df))
    /\ cols' = cols \cup {"IRS Category", "Needs Review", "Potential Sponsorship"}
    /\ pc' = "classified"
    /\ UNCHANGED <<raw, journal_mask, review_df, edits, summary, csv, report, c_row, c_out, prev>>

(* lines 315-326 *)
JournalRule ==
    /\ pc = "classified"
    /\ journal_mask' = JournalMask(df)
    /\ df' = ApplyJournalRule(df, JournalMask(df))
    /\ pc' = "journal"
    /\ UNCHANGED <<raw, cols, review_df, edits, summary, csv, report, c_row, c_out, prev>>

(* lines 337-342 *)
ForceReview ==
    /\ pc = "journal"
    /\ df' = ForceReviewRows(df, journal_mask)
    /\ pc' = "flagged"
    /\ UNCHANGED <<raw, cols, journal_mask, review_df, edits, summary, csv, report, c_row, c_out, prev>>

(* lines 347-450: the rows to review are shown in the editor *)
OpenReview ==
    /\ pc = "flagged"
    /\ ReviewRows(df) # <<>>
    /\ review_df' = ReviewRows(df)
    /\ pc' = "review"
    /\ UNCHANGED <<raw, cols, df, journal_mask, edits, summary, csv, report, c_row, c_out, prev>>

(* lines 409-450: what the reviewer of the model puts in one cell of the
   editor: some of the options of the selectbox, a text, a tick; a cleared
   text or selectbox cell comes back as None.  "Potential Sponsorship" is
   disabled. *)
ReviewerPicks == {o \in cat_options : split_code(o) \in {"1", "2", "9", "14", "16", "23"}}

EditValues(c) ==
    CASE c = "IRS Category" -> ReviewerPicks \cup {NA}
      [] c = "Needs Further Investigation" -> BOOLEAN
      [] c = "Sponsor Name" -> {"Boeing", "Acme"}
      [] c = "Itemization Label" -> {"Journal ads", NA}
      [] c = "Member/Event Label" -> {"Hawaii Chapter Event"}

(* the reviewer of the model edits in the first run of a session; a run
   that follows another is a run without edits *)
ReviewEdit ==
    /\ pc = "review"
    /\ edits < MaxEdits
    /\ prev.kind = "none"
    /\ \E i \in 1..Len(review_df), c \in {"IRS Category"} \cup HelperColumns :
        \E v \in EditValues(c) \ {review_df[i][c]} :
            review_df' = [review_df EXCEPT ![i][c] = v]
    /\ edits' = edits + 1
    /\ UNCHANGED <<pc, raw, cols, df, journal_mask, summary, csv, report, c_row, c_out, prev>>

(* lines 464-473 and 729-730: the summary and the two exports of a frame *)
Outputs(final) ==
    LET summ == Summary(final)
    IN  [summary |-> summ,
         csv |-> build_monthly_activity_csv(final),
         report |-> build_text_report(final, summ)]

(* lines 453-730: the editor's rows are merged into the frame, the review
   flag is dropped, and the script runs on to its end *)
Merge ==
    /\ pc = "review"
    /\ \E returned \in Orders(review_df) :
        \E final \in {DropNeedsReview(Update(df, returned))} :
            \E out \in {Outputs(final)} :
                /\ df' = final
                /\ summary' = out.summary
                /\ csv' = out.csv
                /\ report' = out.report
    /\ cols' = cols \ {"Needs Review"}
    /\ pc' = "done"
    /\ UNCHANGED <<raw, journal_mask, review_df, edits, c_row, c_out, prev>>

(* lines 349, 456-730: nothing to review *)
SkipReview ==
    /\ pc = "flagged"
    /\ ReviewRows(df) = <<>>
    /\ \E final \in {DropNeedsReview(df)} :
        \E out \in {Outputs(final)} :
            /\ df' = final
            /\ summary' = out.summary
            /\ csv' = out.csv
            /\ report' = out.report
    /\ cols' = cols \ {"Needs Review"}
    /\ pc' = "done"
    /\ UNCHANGED <<raw, journal_mask, review_df, edits, c_row, c_out, prev>>

(* the positions of the final rows whose itemization label line 326 set:
   rows of the journal mask that the file gave no label *)
AutoSet ==
    {k \in 1..Len(df) :
        /\ df[k].id \in journal_mask
        /\ df[k]["Itemization Label"] = "Journal subscriptions"
        /\ ("Itemization Label" \in DOMAIN RowOf(raw, df[k].id)
                => RowOf(raw, df[k].id)["Itemization Label"] # "Journal subscriptions")}

(* the script from its top again, after a run without edits of the
   reviewer on a file with rows: on the same file (Streamlit runs the script
   anew on every interaction, lines 240-256), or on the export of the run,
   uploaded as the next file.  The model follows one such rerun. *)
Rerun ==
    /\ pc = "done"
    /\ edits = 0
    /\ prev.kind = "none"
    /\ raw # <<>>
    /\ \E kind \in {"same", "export"} :
        /\ prev' = [kind |-> kind, df |-> df, summary |-> summary, auto |-> AutoSet]
        /\ raw' = IF kind = "same" THEN raw ELSE ReadExport(csv)
        /\ cols' = IF kind = "same" THEN RawColumns ELSE ExportColumns
    /\ df' = raw'
    /\ pc' = "uploaded"
    /\ journal_mask' = {}
    /\ review_df' = <<>>
    /\ summary' = <<>>
    /\ csv' = <<>>
    /\ report' = NoReport
    /\ UNCHANGED <<edits, c_row, c_out>>

Next ==
    \/ Rerun
    \/ PreFilter
    \/ MissingColumns
    \/ Prepare
    \/ Classify
    \/ JournalRule
    \/ ForceReview
    \/ OpenReview
    \/ ReviewEdit
    \/ Merge
    \/ SkipReview

Spec == Init /\ [][Next]_vars

---------------------------------------------------------------------------
(* The classifier alone, on every description and amount of the bounds *)

InitClassify ==
    /\ \E d \in Descriptions, a \in RawAmounts : c_row = [Description |-> d, Amount |-> a]
    /\ c_out = NoOutcome
    /\ pc = "call"
    /\ raw = <<>>
    /\ cols = {}
    /\ df = <<>>
    /\ journal_mask = {}
    /\ review_df = <<>>
    /\ edits = 0
    /\ summary = <<>>
    /\ csv = <<>>
    /\ report = NoReport
    /\ prev = NoRun

ClassifyRow ==
    /\ pc = "call"
    /\ c_out' = classify_row(c_row)
    /\ pc' = "returned"
    /\ UNCHANGED <<raw, cols, df, journal_mask, review_df, edits, summary, csv, report, c_row, prev>>

NextClassify == ClassifyRow

SpecClassify == InitClassify /\ [][NextClassify]_vars

---------------------------------------------------------------------------
(* The classifier's contract, stated on the description as written (any
   case) and on the amount as a number, an amount that is no number (an
   unparseable text, an empty cell) taken as 0 *)

Has(k) == \E f \in c_row.Description.kws : ~c_row.Description.na /\ Substring(k, f)

HasAny(ks) == \E k \in ks : Has(k)

AmountCents == IF c_row.Amount.kind = "num" THEN c_row.Amount.v ELSE 0

RuleHolds(n) ==
    CASE n = 1  -> Has("balance") /\ ~HasAny({"deposit", "withdrawal", "paid from", "pos debit", "ach"})
      [] n = 2  -> Has("transfer") /\ Has("savings")
      [] n = 3  -> Has("affinipay") /\ AmountCents > 0
      [] n = 4  -> Has("stripe transfer") /\ AmountCents > 0
      [] n = 5  -> HasAny(SponsorKeywords)
      [] n = 6  -> Has("interest") /\ AmountCents > 0
      [] n = 7  -> HasAny(ProfessionalFeeKeywords)
      [] n = 8  -> HasAny(SaasKeywords)
      [] n = 9  -> HasAny(AwardKeywords)
      [] n = 10 -> HasAny(ChapterEventKeywords)
      [] n = 11 -> HasAny(MerchantFeeKeywords)
      [] n = 12 -> Has("interest") /\ AmountCents < 0
      [] n = 13 -> TRUE

RuleOutcome(n) ==
    CASE n \in {1, 2} -> Outcome(IGNORE, FALSE, FALSE)
      [] n = 3  -> Outcome(CATEGORY_LABELS["2"], FALSE, FALSE)
      [] n = 4  -> Outcome(CATEGORY_LABELS[IF AmountCents < 900 THEN "9" ELSE "2"], FALSE, FALSE)
      [] n = 5  -> Outcome(CATEGORY_LABELS["1"], TRUE, TRUE)
      [] n = 6  -> Outcome(CATEGORY_LABELS["3"], FALSE, FALSE)
      [] n = 7  -> Outcome(CATEGORY_LABELS["22"], FALSE, FALSE)
      [] n = 8  -> Outcome(CATEGORY_LABELS["23"], FALSE, FALSE)
      [] n = 9  -> Outcome(CATEGORY_LABELS["15"], FALSE, FALSE)
      [] n = 10 -> Outcome(CATEGORY_LABELS["16"], TRUE, FALSE)
      [] n = 11 -> Outcome(CATEGORY_LABELS["23"], FALSE, FALSE)
      [] n = 12 -> Outcome(CATEGORY_LABELS["19"], FALSE, FALSE)
      [] n = 13 -> IF AmountCents >= 50000 THEN Outcome(CATEGORY_LABELS["1"], TRUE, TRUE)
                   ELSE IF AmountCents > 0 THEN Outcome(CATEGORY_LABELS["7"], TRUE, FALSE)
                   ELSE Outcome(CATEGORY_LABELS["23"], TRUE, FALSE)

FirstRule == CHOOSE n \in 1..13 : RuleHolds(n) /\ \A m \in 1..(n - 1) : ~RuleHolds(m)

(* C1: classify_row returns the outcome of the lowest-numbered rule of the
   13-rule cascade whose predicate holds, for every description and amount
   (an amount that is no number taken as 0); a description with "balance" and
   none of deposit / withdrawal / paid from / pos debit / ach gives IGNORE
   whatever the amount. *)
C1_FirstMatchWins ==
    pc = "returned" =>
        /\ c_out = RuleOutcome(FirstRule)
        /\ (RuleHolds(1) => c_out.cat = IGNORE)

(* a description that matches the professional-fee rule and the later
   interest-expense rule is classified by the earlier one *)
C1_Witness ==
    /\ pc = "returned"
    /\ RuleHolds(7) /\ RuleHolds(12) /\ FirstRule = 7
    /\ c_out.cat = CATEGORY_LABELS["22"]

(* C2, as stated: every description containing "stripe transfer" with an
   amount > 0 gives category 9 below 9.00 and category 2 from 9.00 on,
   whatever else the description contains. *)
C2_AsStated ==
    (pc = "returned" /\ Has("stripe transfer") /\ AmountCents > 0) =>
        c_out.cat = CATEGORY_LABELS[IF AmountCents < 900 THEN "9" ELSE "2"]

(* C2, amended: a description containing "stripe transfer" with an amount
   > 0 that none of the earlier rules 1-3 matches (hard ignore on "balance",
   internal transfer on "savings", Affinipay) gives category 9 below 9.00 and
   category 2 from 9.00 on, whatever else it contains. *)
C2_StripeSplit ==
    (/\ pc = "returned"
     /\ Has("stripe transfer") /\ AmountCents > 0
     /\ ~(Has("balance") /\ ~HasAny({"deposit", "withdrawal", "paid from", "pos debit", "ach"}))
     /\ ~Has("savings")
     /\ ~Has("affinipay")) =>
        /\ c_out.cat = CATEGORY_LABELS[IF AmountCents < 900 THEN "9" ELSE "2"]
        /\ (AmountCents = 900 => c_out.cat = CATEGORY_LABELS["2"])
        /\ (AmountCents = 899 => c_out.cat = CATEGORY_LABELS["9"])

(* 9.00 on a Stripe transfer that also names a sponsor is membership *)
C2_Witness ==
    /\ pc = "returned"
    /\ Has("stripe transfer") /\ Has("sponsor") /\ AmountCents = 900
    /\ c_out.cat = CATEGORY_LABELS["2"]

(* C3: an amount > 0 on a description that rules 1-12 do not match needs
   review, and is category 1 with potential_sponsorship exactly from 500.00
   on, category 7 without it below. *)
C3_FallbackThreshold ==
    (pc = "returned" /\ AmountCents > 0 /\ \A n \in 1..12 : ~RuleHolds(n)) =>
        /\ c_out.nr
        /\ (c_out.cat = CATEGORY_LABELS["1"] /\ c_out.ps) <=> AmountCents >= 50000
        /\ AmountCents < 50000 => (c_out.cat = CATEGORY_LABELS["7"] /\ ~c_out.ps)

(* exactly 500.00 on an unmatched description is a potential sponsorship *)
C3_Witness ==
    /\ pc = "returned"
    /\ AmountCents = 50000 /\ \A n \in 1..12 : ~RuleHolds(n)
    /\ c_out = Outcome(CATEGORY_LABELS["1"], TRUE, TRUE)

---------------------------------------------------------------------------
(* The pipeline's contract *)

Rows(frame) == {frame[i] : i \in 1..Len(frame)}

RegistryLabels == {CATEGORY_LABELS[code] : code \in DOMAIN CATEGORY_LABELS}

(* the amount of a row in cents, a missing amount counting for nothing *)
Cents(r) == IF r["Amount"].kind = "num" THEN r["Amount"].v ELSE 0

(* the total of the rows of a frame at the positions of a set *)
RECURSIVE TotalAt(_, _)
TotalAt(frame, positions) ==
    IF positions = {} THEN 0
    ELSE LET i == CHOOSE i \in positions : TRUE
         IN  Cents(frame[i]) + TotalAt(frame, positions \ {i})

RECURSIVE SummaryTotalUpTo(_)
SummaryTotalUpTo(n) == IF n = 0 THEN 0 ELSE summary[n].Amount + SummaryTotalUpTo(n - 1)

(* a Stripe transfer, in any case, of more than 0 and less than 9.00 *)
MicroStripe(r) ==
    /\ ~r["Description"].na
    /\ \E f \in r["Description"].kws : Substring("stripe transfer", f)
    /\ Cents(r) > 0 /\ Cents(r) < 900

(* the label the uploaded file gave the row: none if the file has no such
   column or the cell is empty *)
FileLabel(id) ==
    IF "Itemization Label" \in DOMAIN RowOf(raw, id) /\ RowOf(raw, id)["Itemization Label"] # NA
    THEN RowOf(raw, id)["Itemization Label"]
    ELSE ""

(* C4, as stated: every transaction of the input that classify_row does not
   map to IGNORE is in the final rows, is counted in exactly one group of the
   summary and is exactly one row of the flat export. *)
C4_AsStated ==
    pc = "done" =>
        \A i \in 1..Len(raw) :
            (~raw[i]["Description"].na /\ classify_row(raw[i]).cat # IGNORE) =>
                /\ Cardinality({k \in 1..Len(df) : df[k].id = i}) = 1
                /\ Cardinality({j \in 1..Len(summary) :
                        \E k \in 1..Len(df) : df[k].id = i /\ summary[j].key = df[k]["IRS Category"]}) = 1
                /\ Len(csv) = Len(df)

(* C5: the summary is sum-preserving, also after the reviewer's edits: its
   amounts add up to the total of the final rows, it has one row per category
   that a final row carries, and each of its rows holds the total of exactly
   the final rows of its category. *)
C5_SumPreserving ==
    pc = "done" =>
        /\ SummaryTotalUpTo(Len(summary)) = TotalAt(df, 1..Len(df))
        /\ \A j \in 1..Len(summary) :
            summary[j].Amount =
                TotalAt(df, {k \in 1..Len(df) : df[k]["IRS Category"] = summary[j].key})
        /\ \A r \in Rows(df) :
            Cardinality({j \in 1..Len(summary) : summary[j].key = r["IRS Category"]}) = 1

(* two final rows share a category after an edit of the reviewer, and the
   summary has their total *)
C5_Witness ==
    /\ pc = "done" /\ edits > 0
    /\ \E j \in 1..Len(summary) :
        /\ Cardinality({k \in 1..Len(df) : df[k]["IRS Category"] = summary[j].key}) = 2
        /\ summary[j].Amount # 0
        /\ \E r \in Rows(df) : r["IRS Category"] = summary[j].key /\ summary[j].Amount # Cents(r)

(* C6, as stated: after steps 5-7 every retained Stripe transfer of more
   than 0 and less than 9.00 is category 9 with needs_review = false, has the
   label "Journal subscriptions" if it had no label, and keeps the label it
   had. *)
C6_AsStated ==
    pc \in {"flagged", "review"} =>
        \A r \in Rows(df) :
            MicroStripe(r) =>
                /\ r["IRS Category"] = CATEGORY_LABELS["9"]
                /\ ~r["Needs Review"]
                /\ FileLabel(r.id) = "" => r["Itemization Label"] = "Journal subscriptions"
                /\ FileLabel(r.id) # "" => r["Itemization Label"] = FileLabel(r.id)

(* C7: after step 7 every retained row of category 7, 9, 15, 16 or 23 has
   needs_review = true, except the Stripe transfers of more than 0 and less
   than 9.00, which step 6 made category 9 and which have needs_review =
   false. *)
C7_ForcedReview ==
    pc \in {"flagged", "review"} =>
        \A r \in Rows(df) :
            /\ MicroStripe(r) => (r["IRS Category"] = CATEGORY_LABELS["9"] /\ ~r["Needs Review"])
            /\ (~MicroStripe(r) /\ r["IRS Category"] \in
                    {CATEGORY_LABELS[code] : code \in {"7", "9", "15", "16", "23"}})
                => r["Needs Review"]

(* a donated award, which the classifier does not send to review, is forced
   to review next to a Stripe micro-transfer, which is not *)
C7_Witness ==
    /\ pc = "flagged"
    /\ \E r \in Rows(df) :
        /\ r["IRS Category"] = CATEGORY_LABELS["15"]
        /\ ~classify_row(RowOf(raw, r.id)).nr
        /\ r["Needs Review"]
    /\ \E r \in Rows(df) :
        MicroStripe(r) /\ r["IRS Category"] = CATEGORY_LABELS["9"] /\ ~r["Needs Review"]

(* the same text, an empty text and a missing one being the same *)
SameText(a, b) == a = b \/ {a, b} \subseteq {"", NA}

(* C8, as stated: whatever the reviewer edits and in whatever order the
   rows come back, each reviewed row of the final data carries the reviewer's
   category, annotation fields and needs_further_investigation, and every row
   that was not handed to the reviewer is unchanged in every field. *)
C8_AsStated ==
    [][(pc = "review" /\ pc' = "done") =>
        /\ \A o \in Rows(review_df) :
            /\ RowOf(df', o.id)["Needs Further Investigation"] = o["Needs Further Investigation"]
            /\ \A c \in {"IRS Category"} \cup TextColumns : SameText(RowOf(df', o.id)[c], o[c])
        /\ \A r \in Rows(df) :
            r.id \notin Ids(review_df) =>
                \A c \in DOMAIN r \ {"Needs Review"} : RowOf(df', r.id)[c] = r[c]]_vars

(* C9: in every final output each retained transaction has one category,
   one of the 14 labels of the registry; IGNORE is the category of no final
   row, summary row, export row or report section, whatever the reviewer
   picks. *)
C9_RegistryCategories ==
    pc = "done" =>
        /\ \A r \in Rows(df) : r["IRS Category"] \in RegistryLabels
        /\ \A j \in 1..Len(summary) : summary[j].key \in RegistryLabels
        /\ \A k \in 1..Len(csv) : csv[k]["IRS Category Code"] \in DOMAIN CATEGORY_LABELS
        /\ \A t \in Rows(report.revenue \o report.expenses) : t.key \in RegistryLabels
        /\ \A t \in Rows(report.itemized_revenue \o report.itemized_expenses) :
            t.code \in DOMAIN CATEGORY_LABELS

(* the input had a row the classifier ignores, the reviewer cleared or
   changed a category, and the run ended with rows *)
C9_Witness ==
    /\ pc = "done" /\ edits > 0
    /\ \E i \in 1..Len(raw) : classify_row(raw[i]).cat = IGNORE
    /\ \E o \in Rows(review_df) : o["IRS Category"] # classify_row(RowOf(raw, o.id)).cat
    /\ df # <<>>

NoData(r) ==
    /\ r["Itemization Label"] \in {"", NA}
    /\ r["Sponsor Name"] \in {"", NA}
    /\ r["Member/Event Label"] \in {"", NA}

(* C10, as stated: the report has no itemized section for a category,
   category 16 included, none of whose rows has an itemization label, a
   sponsor name or an event label. *)
C10_AsStated ==
    pc = "done" =>
        \A code \in DOMAIN CATEGORY_LABELS :
            (\A r \in Rows(df) : r["IRS Category"] = CATEGORY_LABELS[code] => NoData(r)) =>
                \A t \in Rows(report.itemized_revenue \o report.itemized_expenses) : t.code # code

---------------------------------------------------------------------------
(* The sponsor breakdown of the report *)

(* the rows of category 1 of the final data *)
SponsorshipRows == {k \in 1..Len(df) : df[k]["IRS Category"] = CATEGORY_LABELS["1"]}

(* the sponsor names that rows of category 1 carry *)
SponsorNames == {df[k]["Sponsor Name"] : k \in SponsorshipRows} \ {"", NA}

(* the lines of the report's breakdown of category 1 *)
SponsorLines ==
    Concat([j \in 1..Len(report.itemized_revenue) |->
        IF report.itemized_revenue[j].code = "1"
        THEN report.itemized_revenue[j].lines ELSE <<>>])

(* the sponsor name the uploaded file gave the row: none if the file has no
   such column or the cell is empty *)
FileSponsor(id) ==
    IF "Sponsor Name" \in DOMAIN RowOf(raw, id) /\ RowOf(raw, id)["Sponsor Name"] # NA
    THEN RowOf(raw, id)["Sponsor Name"]
    ELSE ""

(* a precedes b in lexicographic order, for the sponsor names of the model *)
NameBefore(a, b) == a = "Acme" /\ b = "Boeing"

(* C11: the report's breakdown of category 1 has one line per non-empty
   sponsor name that a row of category 1 carries, in lexicographic order,
   with the total of the rows of category 1 that carry the name; it has no
   other line, so a row without a sponsor name adds to none. *)
C11_SponsorGrouping ==
    pc = "done" =>
        /\ \A n \in SponsorNames :
            Cardinality({j \in 1..Len(SponsorLines) : SponsorLines[j].key = n}) = 1
        /\ \A j \in 1..Len(SponsorLines) :
            /\ SponsorLines[j].key \in SponsorNames
            /\ SponsorLines[j].Amount =
                TotalAt(df, {k \in SponsorshipRows : df[k]["Sponsor Name"] = SponsorLines[j].key})
        /\ \A j, k \in 1..Len(SponsorLines) :
            j < k => NameBefore(SponsorLines[j].key, SponsorLines[k].key)

(* the reviewer set "Boeing" on a row of category 1 that had no sponsor
   name, another row of category 1 had it from the file, and the breakdown is
   the one line Boeing with the total of the two *)
C11_Witness ==
    /\ pc = "done"
    /\ \E o \in Rows(review_df) :
        /\ o["Sponsor Name"] = "Boeing"
        /\ FileSponsor(o.id) = ""
    /\ \E k \in SponsorshipRows : FileSponsor(df[k].id) = "Boeing"
    /\ Len(SponsorLines) = 1
    /\ SponsorLines[1].key = "Boeing"
    /\ Cardinality({k \in SponsorshipRows : df[k]["Sponsor Name"] = "Boeing"}) = 2
    /\ SponsorLines[1].Amount = TotalAt(df, SponsorshipRows)

---------------------------------------------------------------------------
(* Missing required columns *)

(* C12, as stated: a run on a file that lacks Description or Amount ends in
   the error state with no step applied to the rows: the rows are those of
   the file, none filtered out, annotated or classified, and there is no
   summary and no export. *)
C12_AsStated ==
    pc = "stopped" =>
        /\ required_cols \ cols # {}
        /\ df = raw
        /\ summary = <<>>
        /\ csv = <<>>
        /\ report = NoReport

---------------------------------------------------------------------------
(* Running the pipeline again *)

(* the fields of a final row that a run decides or carries *)
RunColumns ==
    {"Description", "Amount", "IRS Category", "Potential Sponsorship",
     "Needs Further Investigation"} \cup TextColumns

(* two final rows are the same transaction with the same category, labels
   and flags; a sponsor name or event label that is empty in one is empty in
   the other *)
SameRow(a, b) ==
    /\ \A c \in RunColumns \ {"Sponsor Name", "Member/Event Label"} : a[c] = b[c]
    /\ \A c \in {"Sponsor Name", "Member/Event Label"} : SameText(a[c], b[c])

(* C13: without edits of the reviewer, a second run on the same file ends
   with the same final rows and the same summary as the first; and a run on
   the export of the first leaves every row whose itemization label the
   first run set as it was: same transaction, category 9, the label, the
   flags, and not handed to the reviewer. *)
C13_Idempotent ==
    /\ (pc = "done" /\ edits = 0 /\ prev.kind = "same") =>
            (df = prev.df /\ summary = prev.summary)
    /\ (pc = "done" /\ edits = 0 /\ prev.kind = "export") =>
            /\ Len(df) = Len(prev.df)
            /\ \A k \in prev.auto : SameRow(df[k], prev.df[k])
    /\ (pc = "flagged" /\ prev.kind = "export") =>
            \A k \in prev.auto : ~df[k]["Needs Review"]

(* a run on the export of a run that set the label of a Stripe transfer and
   handed another row to the reviewer has ended *)
C13_Witness ==
    /\ pc = "done" /\ edits = 0
    /\ prev.kind = "export"
    /\ prev.auto # {}
    /\ \E k \in prev.auto : df[k]["Itemization Label"] = "Journal subscriptions"
    /\ Len(review_df) = 1

---------------------------------------------------------------------------
(* Which rows are handed to the reviewer *)

HasCode(r, codes) == r["IRS Category"] \in {CATEGORY_LABELS[code] : code \in codes}

(* C14: after the forced review and before the merge, a retained row has
   needs_review = true exactly when its category is 1, 7, 9, 15, 16 or 23 and
   it is no Stripe micro-transfer; every row of category 1 is handed to the
   reviewer and has potential_sponsorship = true, no row of category 2, 3, 19
   or 22 is handed to the reviewer, and only rows of category 1 have
   potential_sponsorship = true. *)
C14_ReviewExactly ==
    pc \in {"flagged", "review"} =>
        /\ \A r \in Rows(df) :
            /\ r["Needs Review"] <=>
                    (HasCode(r, {"1", "7", "9", "15", "16", "23"}) /\ ~MicroStripe(r))
            /\ HasCode(r, {"1"}) => (r["Needs Review"] /\ r["Potential Sponsorship"])
            /\ HasCode(r, {"2", "3", "19", "22"}) => ~r["Needs Review"]
            /\ r["Potential Sponsorship"] => HasCode(r, {"1"})
        /\ pc = "review" =>
            \A r \in Rows(df) :
                /\ HasCode(r, {"1"}) => r.id \in Ids(review_df)
                /\ HasCode(r, {"2", "3", "19", "22"}) => r.id \notin Ids(review_df)

(* the editor shows a sponsorship, flagged as a potential one, and not the
   professional fee of the same file *)
C14_Witness ==
    /\ pc = "review"
    /\ \E r \in Rows(df) :
        HasCode(r, {"1"}) /\ r["Potential Sponsorship"] /\ r.id \in Ids(review_df)
    /\ \E r \in Rows(df) :
        HasCode(r, {"22"}) /\ ~r["Needs Review"] /\ r.id \notin Ids(review_df)

=============================================================================
